---------------------------- MODULE Spec2Model ----------------------------
(***************************************************************************)
(* A model of frame_mker.py: the EXIF value normaliser and the four        *)
(* display formatters, the font resolver, the logo paster, the frame       *)
(* composer make_framed_image and the command line entry point main.       *)
(*                                                                         *)
(* Python strings are modelled as sequences of one-character strings, so   *)
(* that formatting, stripping and joining are computed character by        *)
(* character.  A Python float is modelled as an exact fraction n/d (d > 0) *)
(* or as NaN; the input domains are chosen so that no decimal tie falls on *)
(* a value a binary double cannot hold.  A call that ends in an exception  *)
(* is modelled by the outcome Raise(<exception name>).                     *)
(***************************************************************************)
EXTENDS Integers, Sequences, FiniteSets, TLC

VARIABLES
    arg,        \* the arguments of the call: drawn by Init, never changed
    called,     \* the function that has run ("" before the call)
    ret,        \* what the call returned, or the exception that left it
    log,        \* the lines printed to standard output, in order
    saved       \* the output files written

vars == <<arg, called, ret, log, saved>>

---------------------------------------------------------------------------
(* Bounds of the input domains *)

MaxNum == 25
MaxDen == 10
MaxFonts == 3
MaxWidthStep == 3
MaxFiles == 2

---------------------------------------------------------------------------
(* Python values and outcomes *)

None == [kind |-> "None"]
Str(s) == [kind |-> "str", chars |-> s]
Raise(e) == [kind |-> "raise", exc |-> e]
NaN == [kind |-> "nan"]
Float(n, d) == [kind |-> "float", n |-> n, d |-> d]

Int_(i) == [kind |-> "int", i |-> i]

Number(n, d) == [kind |-> "number", n |-> n, d |-> d]
Tuple(items) == [kind |-> "tuple", items |-> items]
Text(s) == [kind |-> "text", chars |-> s]

DigitChars == <<"0", "1", "2", "3", "4", "5", "6", "7", "8", "9">>

Abs(x) == IF x < 0 THEN -x ELSE x

RECURSIVE Digits(_)
Digits(n) ==
    IF n < 10 THEN <<DigitChars[n + 1]>>
    ELSE Digits(n \div 10) \o <<DigitChars[(n % 10) + 1]>>

IntStr(n) == IF n < 0 THEN <<"-">> \o Digits(-n) ELSE Digits(n)

RECURSIVE Pow10(_)
Pow10(p) == IF p = 0 THEN 1 ELSE 10 * Pow10(p - 1)

RECURSIVE ZeroPad(_, _)
ZeroPad(s, width) == IF Len(s) >= width THEN s ELSE ZeroPad(<<"0">> \o s, width)

RECURSIVE RStrip(_, _)
RStrip(s, c) ==
    IF Len(s) > 0 /\ s[Len(s)] = c THEN RStrip(SubSeq(s, 1, Len(s) - 1), c) ELSE s

\* round(n/d) for n >= 0, d > 0: to the nearest integer, a tie to the even one
RoundHalfEven(n, d) ==
    LET q == n \div d
        r == n % d
    IN  IF 2 * r < d THEN q
        ELSE IF 2 * r > d THEN q + 1
        ELSE IF q % 2 = 0 THEN q ELSE q + 1

\* format(n/d, ".<places>f") for n >= 0, d > 0
Fixed(n, d, places) ==
    LET scaled == RoundHalfEven(n * Pow10(places), d)
    IN  Digits(scaled \div Pow10(places)) \o <<".">>
            \o ZeroPad(Digits(scaled % Pow10(places)), places)

DigitValue(c) == CHOOSE i \in 0..9 : DigitChars[i + 1] = c

IsDigit(c) == \E i \in 1..10 : DigitChars[i] = c

RECURSIVE DigitsValue(_)
DigitsValue(s) ==
    IF Len(s) = 0 THEN 0
    ELSE 10 * DigitsValue(SubSeq(s, 1, Len(s) - 1)) + DigitValue(s[Len(s)])

AllDigits(s) == \A i \in 1..Len(s) : IsDigit(s[i])

\* float(<str>) on the numerals of the input domain: digits with at most one point
ParseFloat(s) ==
    LET dots == {i \in 1..Len(s) : s[i] = "."}
    IN  IF Len(s) > 0 /\ dots = {} /\ AllDigits(s) THEN Float(DigitsValue(s), 1)
        ELSE IF Cardinality(dots) = 1
        THEN LET p == CHOOSE i \in dots : TRUE
                 ip == SubSeq(s, 1, p - 1)
                 fp == SubSeq(s, p + 1, Len(s))
             IN  IF Len(ip) + Len(fp) > 0 /\ AllDigits(ip) /\ AllDigits(fp)
                 THEN Float(DigitsValue(ip) * Pow10(Len(fp)) + DigitsValue(fp),
                            Pow10(Len(fp)))
                 ELSE None
        ELSE None

\* int(<str>)
ParseInt(s) == IF Len(s) > 0 /\ AllDigits(s) THEN Int_(DigitsValue(s)) ELSE None

\* float(arg): None where Python raises
ToFloat(v) ==
    CASE v.kind = "number" -> IF v.d = 0 THEN NaN ELSE Float(v.n, v.d)
      [] v.kind = "text" -> ParseFloat(v.chars)
      [] OTHER -> None

_rational_to_float(v) ==
    IF ToFloat(v) # None THEN ToFloat(v)
    ELSE IF v.kind = "tuple" /\ Len(v.items) = 2
    THEN IF v.items[2] = 0 THEN None
         ELSE IF v.items[2] < 0 THEN Float(-v.items[1], -v.items[2])
         ELSE Float(v.items[1], v.items[2])
    ELSE ToFloat(v)

\* _format_exposure_time with the tolerance test on the fraction left out
format_exposure_time_untested(v) ==
    LET t == _rational_to_float(v)
    IN  IF t = None THEN None
        ELSE IF t = NaN THEN Raise("ValueError")
        ELSE IF t.n <= 0 THEN None
        ELSE IF t.n < t.d
        THEN Str(<<"1", "/">> \o Digits(RoundHalfEven(t.d, t.n)) \o <<"s">>)
        ELSE LET r == RoundHalfEven(t.n, t.d)
             IN  IF 20 * Abs(t.n - r * t.d) < t.d
                 THEN Str(Digits(r) \o <<"s">>)
                 ELSE Str(Fixed(t.n, t.d, 1) \o <<"s">>)

_format_exposure_time(v) ==
    LET t == _rational_to_float(v)
    IN  IF t = None THEN None
        ELSE IF t = NaN THEN Raise("ValueError")
        ELSE IF t.n <= 0 THEN None
        ELSE IF t.n < t.d
        THEN LET denom == RoundHalfEven(t.d, t.n)
             IN  IF denom > 0 /\ 50 * Abs(t.d - denom * t.n) < denom * t.n
                 THEN Str(<<"1", "/">> \o Digits(denom) \o <<"s">>)
                 ELSE Str(Fixed(t.n, t.d, 3) \o <<"s">>)
        ELSE LET r == RoundHalfEven(t.n, t.d)
             IN  IF 20 * Abs(t.n - r * t.d) < t.d
                 THEN Str(Digits(r) \o <<"s">>)
                 ELSE Str(Fixed(t.n, t.d, 1) \o <<"s">>)

_format_fnumber(v) ==
    LET f == _rational_to_float(v)
    IN  IF f = None THEN None
        ELSE IF f = NaN THEN Str(<<"F", "n", "a", "n">>)
        ELSE IF f.n <= 0 THEN None
        ELSE Str(RStrip(RStrip(<<"F">> \o Fixed(f.n, f.d, 1), "0"), "."))

_format_focal(v) ==
    LET fl == _rational_to_float(v)
    IN  IF fl = None THEN None
        ELSE IF fl # NaN /\ fl.n <= 0 THEN None
        ELSE Raise("NameError")

\* int(arg) toward zero; None where Python raises
ToInt(v) ==
    CASE v.kind = "number" ->
            IF v.d = 0 THEN None
            ELSE IF v.n < 0 THEN Int_(-((-v.n) \div v.d)) ELSE Int_(v.n \div v.d)
      [] v.kind = "text" -> ParseInt(v.chars)
      [] OTHER -> None

format_iso(v) ==
    IF v.kind = "tuple" /\ Len(v.items) > 0 THEN Str(<<"I", "S", "O">> \o IntStr(v.items[1]))
    ELSE IF ToInt(v) = None THEN None
    ELSE Str(<<"I", "S", "O">> \o IntStr(ToInt(v).i))

---------------------------------------------------------------------------
(* The raw EXIF values of the formatter specification *)

Ratios == ((-1..MaxNum) \X (0..MaxDen)) \cup {<<1, 100>>, <<1, 250>>}

Texts == {<<>>, <<"a", "b", "c">>, <<"0", ".", "5">>, <<"2">>, <<"1", "/", "2">>}

RawValues ==
    {None}
    \cup {Number(p[1], p[2]) : p \in Ratios}
    \cup {Tuple(<<p[1], p[2]>>) : p \in Ratios}
    \cup {Tuple(<<>>), Tuple(<<200>>), Tuple(<<200, 400, 800>>)}
    \cup {Text(s) : s \in Texts}

InitFormat ==
    arg \in RawValues /\ called = "" /\ ret = None /\ log = <<>> /\ saved = {}

FormatExposureTime ==
    /\ called = ""
    /\ called' = "_format_exposure_time"
    /\ ret' = _format_exposure_time(arg)
    /\ UNCHANGED <<arg, log, saved>>

FormatFnumber ==
    /\ called = ""
    /\ called' = "_format_fnumber"
    /\ ret' = _format_fnumber(arg)
    /\ UNCHANGED <<arg, log, saved>>

FormatFocal ==
    /\ called = ""
    /\ called' = "_format_focal"
    /\ ret' = _format_focal(arg)
    /\ UNCHANGED <<arg, log, saved>>

FormatIso ==
    /\ called = ""
    /\ called' = "iso"
    /\ ret' = format_iso(arg)
    /\ UNCHANGED <<arg, log, saved>>

NextFormat == FormatExposureTime \/ FormatFnumber \/ FormatFocal \/ FormatIso

SpecFormat == InitFormat /\ [][NextFormat]_vars

---------------------------------------------------------------------------
(* Claims about the formatters, under SpecFormat *)

\* ret is "<decimal>s" where <decimal> has exactly `places` digits after the
\* point and is the one nearest to n/d
IsDecimalSeconds(r, n, d, places) ==
    /\ r.kind = "str"
    /\ Len(r.chars) >= places + 3
    /\ r.chars[Len(r.chars)] = "s"
    /\ r.chars[Len(r.chars) - places - 1] = "."
    /\ LET shown == ParseFloat(SubSeq(r.chars, 1, Len(r.chars) - 1))
       IN  /\ shown # None
           /\ shown.d = Pow10(places)
           /\ 2 * Abs(shown.n * d - n * shown.d) <= d

C5_FocalFormat ==
    called = "_format_focal" =>
        LET fl == _rational_to_float(arg)
        IN  (fl.kind = "float" /\ fl.n > 0) =>
                ret = Str(RStrip(RStrip(Fixed(fl.n, fl.d, 1), "0"), ".")
                              \o <<"m", "m">>)

\* C6: each of the four formatters, on every raw EXIF value, returns a
\* non-empty string or None: it never raises and never returns "".
C6_FormattersTotal ==
    called # "" => (ret.kind # "raise" /\ ret # Str(<<>>))

---------------------------------------------------------------------------
(* Font resolution *)

\* A candidate of preferred_paths with what the file system holds for it:
\* whether the path exists and whether ImageFont.truetype can load it
FontFile(path, exists, loads) == [path |-> path, exists |-> exists, loads |-> loads]

TrueTypeFont(path, size) == [kind |-> "font", path |-> path, size |-> size]
DefaultFont == [kind |-> "font", path |-> "<load_default>", size |-> 0]

\* load_font: the except clause formats the undefined name `path`, so the
\* first candidate that exists and fails to load ends the call in NameError
RECURSIVE load_font(_, _)
load_font(preferred_paths, size) ==
    IF preferred_paths = <<>> THEN DefaultFont
    ELSE LET p == Head(preferred_paths)
         IN  IF p.path # "" /\ p.exists
             THEN IF p.loads THEN TrueTypeFont(p.path, size)
                  ELSE Raise("NameError")
             ELSE load_font(Tail(preferred_paths), size)

FontFiles ==
    { FontFile("", FALSE, FALSE),
      FontFile("missing.ttf", FALSE, FALSE),
      FontFile("broken.ttf", TRUE, FALSE),
      FontFile("arial.ttf", TRUE, TRUE),
      FontFile("DejaVuSans.ttf", TRUE, TRUE) }

FontLists == UNION {[1..k -> FontFiles] : k \in 0..MaxFonts}

FontSizes == {10, 12}

InitFont ==
    /\ arg \in [preferred_paths : FontLists, size : FontSizes]
    /\ called = "" /\ ret = None /\ log = <<>> /\ saved = {}

LoadFont ==
    /\ called = ""
    /\ called' = "load_font"
    /\ ret' = load_font(arg.preferred_paths, arg.size)
    /\ UNCHANGED <<arg, log, saved>>

SpecFont == InitFont /\ [][LoadFont]_vars

\* the candidates of `paths` that exist and load, in order
RECURSIVE Loadable(_)
Loadable(paths) ==
    IF paths = <<>> THEN <<>>
    ELSE (IF Head(paths).path # "" /\ Head(paths).exists /\ Head(paths).loads
          THEN <<Head(paths)>> ELSE <<>>) \o Loadable(Tail(paths))

\* C7: load_font returns the font of the first candidate that exists and
\* loads; a candidate that exists and fails to load does not raise and the
\* search goes on; with no loadable candidate the default face is returned.
C7_LoadFontSearch ==
    called = "load_font" =>
        /\ ret.kind # "raise"
        /\ ret = IF Loadable(arg.preferred_paths) = <<>> THEN DefaultFont
                 ELSE TrueTypeFont(Head(Loadable(arg.preferred_paths)).path, arg.size)

---------------------------------------------------------------------------
(* The metadata line and the brand text of make_framed_image *)

MetaKeys == <<"focal", "fnumber", "shutter", "iso">>

NoExifData == <<"N", "o", " ", "E", "X", "I", "F", " ", "D", "a", "t", "a">>

\* params.get(key): the empty string stands for a missing key
ParamsGet(params, key) == IF key \in DOMAIN params THEN params[key] ELSE <<>>

RECURSIVE Join(_, _)
Join(pieces, sep) ==
    IF pieces = <<>> THEN <<>>
    ELSE IF Len(pieces) = 1 THEN pieces[1]
    ELSE pieces[1] \o sep \o Join(Tail(pieces), sep)

RECURSIVE Pieces(_, _)
Pieces(params, keys) ==
    IF keys = <<>> THEN <<>>
    ELSE (IF ParamsGet(params, Head(keys)) # <<>>
          THEN <<params[Head(keys)]>> ELSE <<>>) \o Pieces(params, Tail(keys))

\* the metadata line with the fields joined by one space
meta_line_single_space(params) ==
    IF Pieces(params, MetaKeys) # <<>> THEN Join(Pieces(params, MetaKeys), <<" ">>)
    ELSE NoExifData

meta_line(params) ==
    IF Pieces(params, MetaKeys) # <<>> THEN Join(Pieces(params, MetaKeys), <<" ", " ">>)
    ELSE NoExifData

Canon == <<"C", "a", "n", "o", "n">>

brand_text(params) ==
    IF ParamsGet(params, "brand") # <<>> THEN params["brand"] ELSE Canon

\* The display strings a CameraParams map may hold, two per key
FieldValues ==
    [ brand |-> << <<"N", "i", "k", "o", "n">>, <<"S", "O", "N", "Y">> >>,
      focal |-> << <<"5", "0", "m", "m">>, <<"3", "5", ".", "5", "m", "m">> >>,
      fnumber |-> << <<"F", "1", ".", "8">>, <<"F", "2">> >>,
      shutter |-> << <<"1", "/", "1", "0", "0", "s">>, <<"2", "s">> >>,
      iso |-> << <<"I", "S", "O", "1", "0", "0">>, <<"I", "S", "O", "8", "0", "0">> >> ]

\* choice[k] = 0 leaves key k out, i > 0 gives it its i-th display string
ParamsOf(choice) ==
    [k \in {k \in DOMAIN choice : choice[k] > 0} |-> FieldValues[k][choice[k]]]

ParamMaps == {ParamsOf(c) : c \in [DOMAIN FieldValues -> 0..2]}

InitMeta ==
    /\ arg \in ParamMaps
    /\ called = "" /\ ret = None /\ log = <<>> /\ saved = {}

BuildMetaLine ==
    /\ called = ""
    /\ called' = "meta_line"
    /\ ret' = Str(meta_line(arg))
    /\ UNCHANGED <<arg, log, saved>>

SpecMeta == InitMeta /\ [][BuildMetaLine]_vars

\* the fields of a line: what stands between the double spaces
RECURSIVE SplitDoubleSpace(_)
SplitDoubleSpace(line) ==
    LET cuts == {i \in 1..(Len(line) - 1) : line[i] = " " /\ line[i + 1] = " "}
    IN  IF cuts = {} THEN <<line>>
        ELSE LET i == CHOOSE c \in cuts : \A o \in cuts : c <= o
             IN  <<SubSeq(line, 1, i - 1)>>
                     \o SplitDoubleSpace(SubSeq(line, i + 2, Len(line)))

PresentFields(params) ==
    (IF "focal" \in DOMAIN params THEN <<params["focal"]>> ELSE <<>>)
        \o (IF "fnumber" \in DOMAIN params THEN <<params["fnumber"]>> ELSE <<>>)
        \o (IF "shutter" \in DOMAIN params THEN <<params["shutter"]>> ELSE <<>>)
        \o (IF "iso" \in DOMAIN params THEN <<params["iso"]>> ELSE <<>>)

\* C3: the metadata line holds exactly the present fields among focal,
\* fnumber, shutter, iso, in that order, joined by two spaces; with none of
\* them present it is "No EXIF Data"; it is never empty.
\* {focal: "50mm", iso: "ISO100"} gives "50mm  ISO100".
C3_MetaLine ==
    called = "meta_line" =>
        /\ ret.kind = "str" /\ ret.chars # <<>>
        /\ IF PresentFields(arg) = <<>> THEN ret.chars = NoExifData
           ELSE SplitDoubleSpace(ret.chars) = PresentFields(arg)
        /\ arg = ParamsOf([brand |-> 0, focal |-> 1, fnumber |-> 0, shutter |-> 0, iso |-> 1])
              => ret.chars = <<"5", "0", "m", "m", " ", " ", "I", "S", "O", "1", "0", "0">>

\* C3 witness: focal and iso present, fnumber and shutter absent
C3_Witness ==
    /\ called = "meta_line"
    /\ DOMAIN arg = {"focal", "iso"}
    /\ ret.chars = <<"5", "0", "m", "m", " ", " ", "I", "S", "O", "1", "0", "0">>

---------------------------------------------------------------------------
(* EXIF extraction *)

ExifGet(exif, tag) == IF tag \in DOMAIN exif THEN exif[tag] ELSE None

\* bool(value)
Truthy(v) ==
    CASE v.kind = "None" -> FALSE
      [] v.kind = "number" -> v.d = 0 \/ v.n # 0
      [] v.kind = "tuple" -> Len(v.items) > 0
      [] v.kind = "text" -> Len(v.chars) > 0
      [] OTHER -> TRUE

\* a or b
Or(a, b) == IF Truthy(a) THEN a ELSE b

RECURSIVE LStrip(_)
LStrip(s) == IF Len(s) > 0 /\ s[1] = " " THEN LStrip(Tail(s)) ELSE s

Strip(s) == LStrip(RStrip(s, " "))

\* str(exif.get(tag, "")).strip() for the text tags Make and Model
ExifStr(exif, tag) ==
    IF tag \in DOMAIN exif /\ exif[tag].kind = "text" THEN Strip(exif[tag].chars)
    ELSE <<>>

Dict(map) == [kind |-> "dict", map |-> map]

extract_camera_params(exif) ==
    LET brand == ExifStr(exif, "Make")
        model == ExifStr(exif, "Model")
        lens == Or(ExifGet(exif, "LensModel"), ExifGet(exif, "LensMake"))
        focal == ExifGet(exif, "FocalLength")
        fnumber == Or(ExifGet(exif, "FNumber"), ExifGet(exif, "ApertureValue"))
        shutter == Or(ExifGet(exif, "ExposureTime"), ExifGet(exif, "ShutterSpeedValue"))
        iso == Or(ExifGet(exif, "ISOSpeedRatings"), ExifGet(exif, "PhotographicSensitivity"))
        focal_s == IF focal # None THEN _format_focal(focal) ELSE None
        fnum_s == IF fnumber # None THEN _format_fnumber(fnumber) ELSE None
        shutter_s == IF shutter # None THEN _format_exposure_time(shutter) ELSE None
        iso_s == format_iso(iso)
        CharsOf(r) == IF r.kind = "str" THEN r.chars ELSE <<>>
        out == [ brand |-> brand,
                 model |-> model,
                 lens |-> IF Truthy(lens) /\ lens.kind = "text" THEN Strip(lens.chars)
                          ELSE <<>>,
                 focal |-> CharsOf(focal_s),
                 fnumber |-> CharsOf(fnum_s),
                 shutter |-> CharsOf(shutter_s),
                 iso |-> CharsOf(iso_s) ]
    IN  IF focal_s.kind = "raise" THEN focal_s
        ELSE IF fnum_s.kind = "raise" THEN fnum_s
        ELSE IF shutter_s.kind = "raise" THEN shutter_s
        ELSE Dict([k \in {k \in DOMAIN out : out[k] # <<>> \/ (k = "lens" /\ Truthy(lens))}
                      |-> out[k]])

---------------------------------------------------------------------------
(* The template catalog.  A ratio is held in thousandths: 180 is 0.18. *)

Nikon_like ==
    [ border_px |-> 20,
      bottom_band_ratio |-> 180,
      bg_color |-> <<255, 255, 255>>,
      border_color |-> <<0, 0, 0>>,
      text_color |-> <<0, 0, 0>>,
      brand_font_size_ratio |-> 60,
      meta_font_size_ratio |-> 26,
      logo_max_height_ratio |-> 80,
      gap_ratio |-> 15,
      use_logo |-> TRUE,
      show_brand_text |-> TRUE,
      show_meta_text |-> TRUE ]

minimal_black ==
    [ border_px |-> 0,
      bottom_band_ratio |-> 140,
      bg_color |-> <<0, 0, 0>>,
      border_color |-> <<255, 255, 255>>,
      text_color |-> <<255, 255, 255>>,
      brand_font_size_ratio |-> 55,
      logo_max_height_ratio |-> 80,
      gap_ratio |-> 12,
      use_logo |-> TRUE,
      show_brand_text |-> FALSE ]

DeFAULT_TEMPLATE == [Nikon_like |-> Nikon_like, minimal_black |-> minimal_black]

\* DeFAULT_TEMPLATE.get(template_name, DeFAULT_TEMPLATE["Nikon_like"])
TemplateGet(template_name) ==
    IF template_name \in DOMAIN DeFAULT_TEMPLATE THEN DeFAULT_TEMPLATE[template_name]
    ELSE DeFAULT_TEMPLATE["Nikon_like"]

---------------------------------------------------------------------------
(* Geometry *)

Max(a, b) == IF a >= b THEN a ELSE b

\* int(ratio * x) for a ratio in thousandths and x >= 0
IntOfProduct(ratio, x) == (ratio * x) \div 1000

\* the band height with the product rounded to the nearest integer
bang_h_rounded(tpl, w) == RoundHalfEven(tpl.bottom_band_ratio * w, 1000)

bang_h(tpl, w) == IntOfProduct(tpl.bottom_band_ratio, w)

canvas_size(tpl, w, h) ==
    <<w + 2 * tpl.border_px, h + bang_h(tpl, w) + tpl.border_px * 2>>

brand_font_size(tpl, canvas_w) == Max(12, IntOfProduct(tpl.brand_font_size_ratio, canvas_w))
meta_font_size(tpl, canvas_w) == Max(10, IntOfProduct(tpl.meta_font_size_ratio, canvas_w))
gap(tpl, canvas_w) == IntOfProduct(tpl.gap_ratio, canvas_w)
logo_max_h(tpl, canvas_w) == IntOfProduct(tpl.logo_max_height_ratio, canvas_w)

\* the bottom of draw.textbbox((0, 0), text, font): the glyph height of the
\* face, taken as its size (the built-in default face is a fixed bitmap face)
TextHeight(font) == IF font = DefaultFont THEN 11 ELSE font.size

\* draw_centered_text returns the y below the text
draw_centered_text(font, y) == y + TextHeight(font)

---------------------------------------------------------------------------
(* The logo *)

\* A logo file: whether the path exists, whether Image.open can decode it,
\* and the size of the decoded image
LogoFile(exists, decodable, w, h) ==
    [kind |-> "logo", exists |-> exists, decodable |-> decodable, w |-> w, h |-> h]

\* paste_logo_center: the new y, the height and the box pasted (<<>>: none).
\* After the resize, `w, h = logo` unpacks the image itself: TypeError.
paste_logo_center(canvas_w, logo, max_height, y) ==
    IF ~logo.decodable
    THEN [kind |-> "ok", y |-> y, h |-> 0, box |-> <<>>,
          log |-> <<"logo failed">>]
    ELSE IF logo.h > max_height THEN Raise("TypeError")
    ELSE [kind |-> "ok", y |-> y + logo.h, h |-> logo.h,
          box |-> <<(canvas_w - logo.w) \div 2, y, logo.w, logo.h>>,
          log |-> <<>>]

---------------------------------------------------------------------------
(* make_framed_image *)

\* What one call of make_framed_image did: the exception that left it (""
\* for none), the canvas allocated (<<>>: none), the two texts, the logo
\* height and the box pasted, the y of the brand text and of the metadata
\* text (-1: not drawn), the files saved and the lines printed
NoOutcome ==
    [ exc |-> "", canvas |-> <<>>, meta_line |-> <<>>, brand_text |-> <<>>,
      logo_h |-> -1, logo_box |-> <<>>, brand_y |-> -1, meta_y |-> -1,
      saved |-> {}, log |-> <<>> ]

NoLogoStep(cur_y) == [kind |-> "ok", y |-> cur_y, h |-> 0, box |-> <<>>, log |-> <<>>]

\* the logo step that advances the cursor only past a logo it has pasted
logo_step_if_pasted(tpl, logo_path, canvas_w, cur_y) ==
    IF tpl.use_logo /\ logo_path # None /\ logo_path.exists
    THEN LET r == paste_logo_center(canvas_w, logo_path, logo_max_h(tpl, canvas_w), cur_y)
         IN  IF r.kind = "raise" \/ r.h = 0 THEN r
             ELSE [r EXCEPT !.y = r.y + gap(tpl, canvas_w) \div 2]
    ELSE NoLogoStep(cur_y)

\* step 1 of the layout: the logo, then half a gap
logo_step(tpl, logo_path, canvas_w, cur_y) ==
    IF tpl.use_logo /\ logo_path # None /\ logo_path.exists
    THEN LET r == paste_logo_center(canvas_w, logo_path, logo_max_h(tpl, canvas_w), cur_y)
         IN  IF r.kind = "raise" THEN r
             ELSE [r EXCEPT !.y = r.y + gap(tpl, canvas_w) \div 2]
    ELSE NoLogoStep(cur_y)

\* A path: its directory ("" for none) and its name, cut before the extension
Path(dir, name) == [dir |-> dir, name |-> name]

\* out_path as saved: under the working directory when it names no
\* directory, with ".jpg" appended unless it ends in it
save_path(out_path) ==
    Path(IF out_path.dir = "" THEN "<cwd>" ELSE out_path.dir,
         IF out_path.name # <<>> /\ out_path.name[Len(out_path.name)] \in {".jpg", ".JPG"}
         THEN out_path.name ELSE out_path.name \o <<".jpg">>)

\* tpl.get("show_brand_text", True)
ShowBrandText(tpl) ==
    IF "show_brand_text" \in DOMAIN tpl THEN tpl["show_brand_text"] ELSE TRUE

\* steps 2 and 3 of the layout and the save: the brand text, a gap, the
\* metadata text, then the file
draw_texts(a, tpl, canvas_w, drawn, brand_font, lg) ==
    LET show_brand == ShowBrandText(tpl) /\ drawn.brand_text # <<>>
        after_brand ==
            IF show_brand
            THEN draw_centered_text(brand_font, lg.y) + gap(tpl, canvas_w)
            ELSE lg.y
    IN  [drawn EXCEPT
            !.logo_h = lg.h,
            !.logo_box = lg.box,
            !.brand_y = IF show_brand THEN lg.y ELSE -1,
            !.meta_y = IF drawn.meta_line # <<>> THEN after_brand ELSE -1,
            !.saved = {save_path(a.out_path)},
            !.log = lg.log \o <<"saved">>]

\* the band once both fonts are asked for: the logo, then the texts
draw_band(a, tpl, canvas_w, drawn, brand_font, meta_font, lg) ==
    IF brand_font.kind = "raise" THEN [drawn EXCEPT !.exc = brand_font.exc]
    ELSE IF meta_font.kind = "raise" THEN [drawn EXCEPT !.exc = meta_font.exc]
    ELSE IF {"use_logo", "text_color"} \ DOMAIN tpl # {}
    THEN [drawn EXCEPT !.exc = "KeyError"]
    ELSE IF lg.kind = "raise" THEN [drawn EXCEPT !.exc = lg.exc]
    ELSE draw_texts(a, tpl, canvas_w, drawn, brand_font, lg)

\* the y the layout starts at: the block of logo, brand, metadata and one gap
\* centred in the band, at least 4 below its top
start_y(tpl, canvas_w, band_top, band_height) ==
    band_top + Max(4, (band_height
                         - (logo_max_h(tpl, canvas_w)
                              + brand_font_size(tpl, canvas_w)
                              + meta_font_size(tpl, canvas_w)
                              + gap(tpl, canvas_w))) \div 2)

\* the canvas with border and image, then the sizes, the fonts and the band
draw_canvas(a, tpl, h, canvas_w, canvas_h, drawn) ==
    IF ( (IF tpl.border_px > 0 THEN {"border_color"} ELSE {})
            \cup {"brand_font_size_ratio", "meta_font_size_ratio",
                  "gap_ratio", "logo_max_height_ratio"} ) \ DOMAIN tpl # {}
    THEN [drawn EXCEPT !.exc = "KeyError"]
    ELSE draw_band(a, tpl, canvas_w, drawn,
                   load_font(a.preferred_fonts, brand_font_size(tpl, canvas_w)),
                   load_font(a.preferred_fonts, meta_font_size(tpl, canvas_w)),
                   logo_step(tpl, a.logo_path, canvas_w,
                             start_y(tpl, canvas_w, tpl.border_px + h,
                                     (canvas_h - tpl.border_px) - (tpl.border_px + h))))

\* the texts and the canvas size, once the image is open and its EXIF read
frame_image(a, tpl, params, size) ==
    IF params.kind = "raise" THEN [NoOutcome EXCEPT !.exc = params.exc]
    ELSE IF {"border_px", "bottom_band_ratio", "bg_color"} \ DOMAIN tpl # {}
    THEN [NoOutcome EXCEPT !.exc = "KeyError"]
    ELSE draw_canvas(a, tpl, a.img.h, size[1], size[2],
                     [NoOutcome EXCEPT !.canvas = size,
                                       !.meta_line = meta_line(params.map),
                                       !.brand_text = brand_text(params.map)])

make_framed_image(a) ==
    IF ~a.img.decodable THEN [NoOutcome EXCEPT !.log = <<"open failed">>]
    ELSE frame_image(a, TemplateGet(a.template_name),
                     extract_camera_params(a.img.exif),
                     canvas_size(TemplateGet(a.template_name), a.img.w, a.img.h))

---------------------------------------------------------------------------
(* The inputs of the composition specification *)

Image(decodable, w, h, exif) ==
    [decodable |-> decodable, w |-> w, h |-> h, exif |-> exif]

\* the EXIF map holding the tags of `tags` that are given a value
ExifOf(tags) == [t \in {t \in DOMAIN tags : tags[t] # None} |-> tags[t]]

Exifs ==
    { ExifOf([Make |-> make, FocalLength |-> focal, FNumber |-> fnumber,
              ExposureTime |-> shutter, ISOSpeedRatings |-> iso]) :
        make \in {None, Text(<<"N", "i", "k", "o", "n", " ">>)},
        focal \in {None, Number(50, 1), Text(<<"a", "b", "c">>)},
        fnumber \in {None, Number(18, 10)},
        shutter \in {None, Number(1, 100), Number(0, 0)},
        iso \in {None, Number(100, 1)} }

Widths == {120 + 37 * i : i \in 0..MaxWidthStep}

Heights == {90, 160}

Images ==
    {Image(FALSE, 0, 0, ExifOf([Make |-> None]))}
        \cup {Image(TRUE, w, h, e) : w \in Widths, h \in Heights, e \in Exifs}

Logos ==
    { None,
      LogoFile(FALSE, FALSE, 0, 0),
      LogoFile(TRUE, FALSE, 0, 0),
      LogoFile(TRUE, TRUE, 40, 10),
      LogoFile(TRUE, TRUE, 90, 45) }

TemplateNames == {"Nikon_like", "minimal_black", "no_such_template"}

FontChoices ==
    { <<>>,
      <<FontFile("missing.ttf", FALSE, FALSE), FontFile("arial.ttf", TRUE, TRUE)>>,
      <<FontFile("broken.ttf", TRUE, FALSE), FontFile("arial.ttf", TRUE, TRUE)>> }

OutPaths == {Path("", <<"a_framed">>), Path("out", <<"a_framed", ".jpg">>)}

ComposeArgs ==
    [ img : Images, out_path : OutPaths, logo_path : Logos,
      template_name : TemplateNames, preferred_fonts : FontChoices ]

InitCompose ==
    /\ arg \in ComposeArgs
    /\ called = "" /\ ret = None /\ log = <<>> /\ saved = {}

MakeFramedImage ==
    /\ called = ""
    /\ called' = "make_framed_image"
    /\ ret' = make_framed_image(arg)
    /\ log' = log \o ret'.log
    /\ saved' = saved \cup ret'.saved
    /\ UNCHANGED arg

SpecCompose == InitCompose /\ [][MakeFramedImage]_vars

---------------------------------------------------------------------------
(* Claims about the composition, under SpecCompose *)

\* the same call with no logo at all
WithoutLogo == make_framed_image([arg EXCEPT !.logo_path = None])

UndecodableLogo ==
    /\ called = "make_framed_image"
    /\ arg.logo_path # None
    /\ arg.logo_path.exists
    /\ ~arg.logo_path.decodable

\* C8 as stated: with a logo file that exists and cannot be decoded, the
\* logo is skipped with height 0, no error reaches the caller, and the brand
\* text and the metadata text stand at the y they have with no logo at all.
C8_LogoFailureSamePositions ==
    (UndecodableLogo /\ WithoutLogo.saved # {}) =>
        /\ ret.exc = ""
        /\ ret.logo_h = 0
        /\ ret.brand_y = WithoutLogo.brand_y
        /\ ret.meta_y = WithoutLogo.meta_y

\* C8 amended: with a logo file that exists and cannot be decoded, the call
\* ends as it does with no logo at all (the same exception or none, the same
\* canvas, the same file saved); where the layout is reached the logo has
\* height 0, nothing is pasted, and each text drawn stands gap // 2 below
\* its place in the composition with no logo.
C8_LogoFailureHalfGap ==
    UndecodableLogo =>
        LET tpl == TemplateGet(arg.template_name)
            half == IF ret.canvas # <<>> /\ "gap_ratio" \in DOMAIN tpl
                    THEN gap(tpl, ret.canvas[1]) \div 2 ELSE 0
        IN  /\ ret.exc = WithoutLogo.exc
            /\ ret.canvas = WithoutLogo.canvas
            /\ ret.saved = WithoutLogo.saved
            /\ ret.saved # {} => (ret.logo_h = 0 /\ ret.logo_box = <<>>)
            /\ ret.brand_y = IF WithoutLogo.brand_y < 0 THEN -1
                              ELSE WithoutLogo.brand_y + half
            /\ ret.meta_y = IF WithoutLogo.meta_y < 0 THEN -1
                             ELSE WithoutLogo.meta_y + half

\* C8 witness: a composition saved with an undecodable logo, both texts
\* drawn, and a gap of at least two pixels
C8_Witness ==
    /\ UndecodableLogo
    /\ ret.saved # {}
    /\ ret.brand_y >= 0 /\ ret.meta_y >= 0
    /\ gap(TemplateGet(arg.template_name), ret.canvas[1]) \div 2 > 0

\* C9: every template a name can select defines every parameter the
\* composition reads, so no composition of a decodable image ends in a
\* missing-parameter failure (KeyError).
C9_TemplatesComplete ==
    called = "make_framed_image" =>
        ret.exc # "KeyError"

\* C10: a decodable logo of size (w, h) is pasted with a height of at most
\* logo_max_height, its aspect ratio kept, never enlarged, centred at
\* x = (canvas_width - rendered_width) // 2, and the cursor advances by the
\* rendered height plus half the gap.
C10_LogoPaste ==
    ( /\ called = "make_framed_image"
      /\ arg.logo_path # None
      /\ arg.logo_path.exists
      /\ arg.logo_path.decodable
      /\ WithoutLogo.saved # {} ) =>
        LET tpl == TemplateGet(arg.template_name)
            logo == arg.logo_path
            box == ret.logo_box
        IN  /\ ret.exc = ""
            /\ box # <<>>
            /\ box[4] <= logo_max_h(tpl, ret.canvas[1])
            /\ box[4] <= logo.h
            /\ Abs(box[3] * logo.h - box[4] * logo.w) <= Max(logo.w, logo.h)
            /\ logo.h <= logo_max_h(tpl, ret.canvas[1]) => (box[3] = logo.w /\ box[4] = logo.h)
            /\ box[1] = (ret.canvas[1] - box[3]) \div 2
            /\ ret.brand_y = WithoutLogo.brand_y + box[4]
                                + gap(tpl, ret.canvas[1]) \div 2

---------------------------------------------------------------------------
(* main *)

\* A file of the file system: its name cut before the extension, and the
\* image Image.open finds in it
File(stem, ext, img) == [kind |-> "file", stem |-> stem, ext |-> ext, img |-> img]

\* A directory named on the command line, with what os.listdir finds in it
Dir(path, listing) == [kind |-> "dir", path |-> path, listing |-> listing]

\* ext.lower()
Lower(ext) ==
    CASE ext = ".JPG" -> ".jpg"
      [] ext = ".PNG" -> ".png"
      [] OTHER -> ext

is_image_file(file) == Lower(file.ext) \in {".png", ".jpg", ".jpeg", ".bmp", ".gif"}

\* the platform fonts main appends to --font, as a Linux machine holds them
BuiltinFonts ==
    << FontFile("arial.ttf", FALSE, FALSE),
       FontFile("SimHei.ttf", FALSE, FALSE),
       FontFile("SourceHanSansCN-Regular.otf", FALSE, FALSE),
       FontFile("/usr/share/fonts/truetype/dejavu/DejaVuSans.ttf", TRUE, TRUE),
       FontFile("/Library/Fonts/Arial.ttf", FALSE, FALSE) >>

\* What one run of main did: the exception that ended it ("" for none), the
\* files handed to make_framed_image in order, the files saved, the lines
\* printed
NoRun == [exc |-> "", attempted |-> <<>>, saved |-> {}, log |-> <<>>]

ComposeArgsOf(args, file, out_path) ==
    [ img |-> file.img, out_path |-> out_path, logo_path |-> args.logo,
      template_name |-> args.template,
      preferred_fonts |-> args.font \o BuiltinFonts ]

\* the loop over os.listdir(args.input_dir): args.out_dir is read outside
\* the try, make_framed_image is called inside it
RECURSIVE batch_loop(_, _, _)
batch_loop(args, listing, run) ==
    IF listing = <<>> THEN run
    ELSE LET file == Head(listing)
         IN  IF ~is_image_file(file) THEN batch_loop(args, Tail(listing), run)
             ELSE IF "out_dir" \notin DOMAIN args
             THEN [run EXCEPT !.exc = "AttributeError"]
             ELSE
             LET outp == Path(args["out_dir"].path, <<file.stem, "_framed", ".jpg">>)
                 r == make_framed_image(ComposeArgsOf(args, file, outp))
                 done == [run EXCEPT !.attempted = @ \o <<file.stem>>,
                                     !.saved = @ \cup r.saved,
                                     !.log = @ \o r.log
                                               \o (IF r.exc # "" THEN <<"failed">>
                                                   ELSE <<>>)]
             IN  batch_loop(args, Tail(listing), done)

main(args) ==
    IF args.input # None
    THEN LET out == IF args.out # None THEN args.out
                    ELSE Path("", <<args.input.stem, "_framed">>)
             r == make_framed_image(ComposeArgsOf(args, args.input, out))
         IN  [exc |-> r.exc, attempted |-> <<args.input.stem>>,
              saved |-> r.saved, log |-> r.log]
    ELSE IF args.output_dir = None THEN [NoRun EXCEPT !.exc = "SystemExit"]
    ELSE IF "out_dir" \notin DOMAIN args THEN [NoRun EXCEPT !.exc = "AttributeError"]
    ELSE batch_loop(args, args.input_dir.listing, NoRun)

Plain == Image(TRUE, 120, 90, ExifOf([Make |-> None]))
WithFocal == Image(TRUE, 157, 90, ExifOf([FocalLength |-> Number(50, 1)]))
Broken == Image(FALSE, 0, 0, ExifOf([Make |-> None]))

Files ==
    { File("a", ".jpg", Plain), File("b", ".PNG", Broken),
      File("c", ".jpeg", WithFocal), File("notes", ".txt", Broken) }

Listings == UNION {[1..k -> Files] : k \in 0..MaxFiles}

\* The namespace argparse builds: exactly one of input and input_dir is set
MainArgs ==
    { a \in [ input : {None} \cup {f \in Files : is_image_file(f)},
              input_dir : {None} \cup {Dir("photos", l) : l \in Listings},
              out : {None, Path("out", <<"x", ".png">>)},
              output_dir : {None, Dir("framed", <<>>)},
              logo : {None, LogoFile(TRUE, FALSE, 0, 0), LogoFile(TRUE, TRUE, 40, 10)},
              template : TemplateNames,
              font : {<<>>, <<FontFile("broken.ttf", TRUE, FALSE)>>} ] :
        (a.input = None) # (a.input_dir = None) }

InitMain ==
    /\ arg \in MainArgs
    /\ called = "" /\ ret = None /\ log = <<>> /\ saved = {}

Main ==
    /\ called = ""
    /\ called' = "main"
    /\ ret' = main(arg)
    /\ log' = log \o ret'.log
    /\ saved' = saved \cup ret'.saved
    /\ UNCHANGED arg

SpecMain == InitMain /\ [][Main]_vars

RECURSIVE ImageStems(_)
ImageStems(listing) ==
    IF listing = <<>> THEN <<>>
    ELSE (IF is_image_file(Head(listing)) THEN <<Head(listing).stem>> ELSE <<>>)
            \o ImageStems(Tail(listing))

\* C1: in batch mode (--input_dir with --output_dir) every image file of the
\* directory is attempted in turn, a failure of one is caught and logged,
\* and no exception leaves the loop or ends the run.
C1_BatchContinues ==
    ( /\ called = "main"
      /\ arg.input = None
      /\ arg.output_dir # None
      /\ ImageStems(arg.input_dir.listing) # <<>> ) =>
        /\ ret.exc = ""
        /\ ret.attempted = ImageStems(arg.input_dir.listing)

---------------------------------------------------------------------------
(* The whole program: any one of the calls above *)

Init == InitFormat \/ InitFont \/ InitMeta \/ InitCompose \/ InitMain

Next ==
    \/ (arg \in RawValues /\ NextFormat)
    \/ (arg \in [preferred_paths : FontLists, size : FontSizes] /\ LoadFont)
    \/ (arg \in ParamMaps /\ BuildMetaLine)
    \/ (arg \in ComposeArgs /\ MakeFramedImage)
    \/ (arg \in MainArgs /\ Main)

Spec == Init /\ [][Next]_vars

=============================================================================
